---- MODULE Spec2Model ----
(***************************************************************************)
(* Best-Buy inventory: products (products.py), promotions (promotions.py)  *)
(* and the store (store.py).                                               *)
(*                                                                         *)
(* Python values that reach a type check are records [t, n]:               *)
(*   [t |-> "int",   n |-> k]   the integer k                              *)
(*   [t |-> "float", n |-> k]   as a quantity: the non-integral float k+0.5*)
(*                              as a price: the float of k thousandths     *)
(*   [t |-> "str",   n |-> 0]   a string such as "5"                       *)
(* Prices are held in thousandths of the currency unit, totals in          *)
(* hundred-thousandths (price * quantity * 100), so that percentages and   *)
(* half prices stay integral and round(x, 2) is a real conversion.         *)
(***************************************************************************)
EXTENDS Integers, Sequences, FiniteSets, TLC

VARIABLES objs, stores, lastOp

vars == <<objs, stores, lastOp>>

(* ------------------------------ bounds -------------------------------- *)
MaxStock == 3
MaxCap == 2
MaxPromos == 2
MaxItems == 2

(* ------------------------------ values -------------------------------- *)
IntV(k) == [t |-> "int", n |-> k]

FloatV(k) == [t |-> "float", n |-> k]

StrV == [t |-> "str", n |-> 0]

NoArg == [t |-> "none", n |-> 0]

\* isinstance(v, int)
IsInt(v) == v.t = "int"

\* float("nan"): a float that is neither <= 0 nor > 0
NaNV == [t |-> "nan", n |-> 0]

\* isinstance(v, (int, float))
IsNumber(v) == v.t \in {"int", "float", "nan"}

\* v <= 0 for a number v, false for NaN
LeZero(v) == v.t # "nan" /\ v.n <= 0

\* the price held by a product whose price is NaN
NaNPrice == 0 - 1

\* float(v) for a price v, in thousandths
float_price(v) == IF v.t = "nan" THEN NaNPrice ELSE v.n

\* v > m for a quantity value v and an integer m (k + 0.5 > m iff k >= m)
Gt(v, m) == IF v.t = "int" THEN v.n > m ELSE v.n >= m

\* quantities a caller passes: integers, a non-integral float, a string
QtyInputs == {IntV(k) : k \in -1..(MaxStock + 1)} \cup {FloatV(MaxCap), StrV}

\* quantities a caller assigns to the stock
StockInputs == {IntV(k) : k \in -1..MaxStock} \cup {FloatV(1), StrV}

PriceMills == {4, 2500}

PriceInputs == {FloatV(m) : m \in PriceMills \cup {0, -1000}} \cup {StrV}

(* ---------------------------- promotions ------------------------------ *)
PromoIds == {"SecondHalfPrice", "ThirdOneFree", "Percent30"}

\* PercentDiscount.percent, as given to the constructor (not validated)
percent(promo) ==
    CASE promo = "Percent100" -> 100
      [] promo = "Percent150" -> 150
      [] promo = "PercentMinus10" -> -10
      [] OTHER -> 30

Min(S) == CHOOSE x \in S : \A y \in S : x <= y

\* round(x, 2) on a total in hundred-thousandths (ties to even)
Round2(x) ==
    LET r == x % 1000
        lo == x - r
    IN  IF r < 500 THEN lo
        ELSE IF r > 500 THEN lo + 1000
        ELSE IF (lo \div 1000) % 2 = 0 THEN lo ELSE lo + 1000

\* a percentage charged instead of taken off
PercentDiscount_pays_percent(promo, price, quantity) ==
    price * quantity * percent(promo)

PercentDiscount_apply_promotion(promo, price, quantity) ==
    price * quantity * (100 - percent(promo))

\* the second unit of each pair for free
SecondHalfPrice_second_free(price, quantity) ==
    LET pairs == quantity \div 2
        remainder == quantity % 2
    IN  (pairs * 100 * price) + (remainder * 100 * price)

SecondHalfPrice_apply_promotion(price, quantity) ==
    LET pairs == quantity \div 2
        remainder == quantity % 2
    IN  (pairs * 150 * price) + (remainder * 100 * price)

\* one paid unit for each group of three
ThirdOneFree_one_paid_per_group(price, quantity) ==
    LET paid_quantity == (quantity \div 3) + (quantity % 3)
    IN  paid_quantity * price * 100

ThirdOneFree_apply_promotion(price, quantity) ==
    LET paid_quantity == (quantity \div 3) * 2 + (quantity % 3)
    IN  paid_quantity * price * 100

apply_promotion(promo, price, quantity) ==
    CASE promo = "SecondHalfPrice" -> SecondHalfPrice_apply_promotion(price, quantity)
      [] promo = "ThirdOneFree" -> ThirdOneFree_apply_promotion(price, quantity)
      [] OTHER -> PercentDiscount_apply_promotion(promo, price, quantity)

\* promotion lists a product is constructed with
RECURSIVE PromoLists(_)
PromoLists(n) ==
    IF n = 0 THEN {<<>>}
    ELSE LET shorter == PromoLists(n - 1)
         IN  shorter \cup {Append(s, p) : s \in {x \in shorter : Len(x) = n - 1},
                                          p \in PromoIds}

Range(s) == {s[i] : i \in 1..Len(s)}

(* ----------------------------- products ------------------------------- *)
Kinds == {"Product", "NonStockedProduct", "LimitedProduct"}

Ok(self, ret) == [obj |-> self, err |-> "none", ret |-> ret]

Raise(self, err) == [obj |-> self, err |-> err, ret |-> 0]

\* Product.__init__ starting a product without stock as inactive
Product_init_sold_out(kind, name, price, quantity, is_active, promotions, max_quantity) ==
    LET self == [kind |-> kind, name |-> name, price |-> float_price(price),
                 quantity |-> quantity.n,
                 is_active |-> IF quantity.n = 0 THEN FALSE ELSE is_active,
                 promotions |-> promotions, max_quantity |-> max_quantity]
    IN  IF name = "" THEN Raise(self, "validation")
        ELSE IF ~IsNumber(price) \/ LeZero(price) THEN Raise(self, "validation")
        ELSE IF ~IsInt(quantity) \/ quantity.n < 0 THEN Raise(self, "validation")
        ELSE Ok(self, 0)

\* Product.__init__: the object, or the error it raises
Product_init(kind, name, price, quantity, is_active, promotions, max_quantity) ==
    LET self == [kind |-> kind, name |-> name, price |-> float_price(price),
                 quantity |-> quantity.n, is_active |-> is_active,
                 promotions |-> promotions, max_quantity |-> max_quantity]
    IN  IF name = "" THEN Raise(self, "validation")
        ELSE IF ~IsNumber(price) \/ LeZero(price) THEN Raise(self, "validation")
        ELSE IF ~IsInt(quantity) \/ quantity.n < 0 THEN Raise(self, "validation")
        ELSE Ok(self, 0)

\* NonStockedProduct.__init__
NonStockedProduct_init(name, price, is_active) ==
    Product_init("NonStockedProduct", name, price, IntV(0), is_active, <<>>, 0)

\* LimitedProduct.__init__
LimitedProduct_init(name, price, quantity, max_quantity, is_active) ==
    Product_init("LimitedProduct", name, price, quantity, is_active, <<>>, max_quantity)

\* price setter
set_price(self, value) ==
    IF ~IsNumber(value) \/ LeZero(value) THEN Raise(self, "validation")
    ELSE Ok([self EXCEPT !.price = float_price(value)], 0)

\* quantity setter that leaves the active flag alone
set_quantity_keeps_active(self, quantity) ==
    IF ~IsInt(quantity) \/ quantity.n < 0 THEN Raise(self, "validation")
    ELSE Ok([self EXCEPT !.quantity = quantity.n], 0)

\* quantity setter that reactivates a restocked product
set_quantity_reactivates(self, quantity) ==
    IF ~IsInt(quantity) \/ quantity.n < 0 THEN Raise(self, "validation")
    ELSE Ok([self EXCEPT !.quantity = quantity.n,
                         !.is_active = quantity.n > 0], 0)

\* quantity setter
set_quantity(self, quantity) ==
    IF ~IsInt(quantity) \/ quantity.n < 0 THEN Raise(self, "validation")
    ELSE Ok([self EXCEPT !.quantity = quantity.n,
                         !.is_active = IF quantity.n = 0 THEN FALSE ELSE @], 0)

\* update_quantity that forgets to deactivate at zero
update_quantity_keeps_active(self, quantity) ==
    IF ~IsInt(quantity) \/ quantity.n < 0 THEN Raise(self, "validation")
    ELSE IF quantity.n > self.quantity THEN Raise(self, "stock")
    ELSE Ok([self EXCEPT !.quantity = @ - quantity.n], 0)

\* update_quantity without the stock check
update_quantity_overdraws(self, quantity) ==
    IF ~IsInt(quantity) \/ quantity.n < 0 THEN Raise(self, "validation")
    ELSE Ok([self EXCEPT !.quantity = @ - quantity.n,
                         !.is_active = IF self.quantity - quantity.n = 0
                                       THEN FALSE ELSE @], 0)

update_quantity(self, quantity) ==
    IF ~IsInt(quantity) \/ quantity.n < 0 THEN Raise(self, "validation")
    ELSE IF quantity.n > self.quantity THEN Raise(self, "stock")
    ELSE Ok([self EXCEPT !.quantity = @ - quantity.n,
                         !.is_active = IF self.quantity - quantity.n = 0
                                       THEN FALSE ELSE @], 0)

\* is_active setter
set_is_active(self, value) == Ok([self EXCEPT !.is_active = value], 0)

activate(self) == Ok([self EXCEPT !.is_active = TRUE], 0)

deactivate(self) == Ok([self EXCEPT !.is_active = FALSE], 0)

\* add_promo with a list of promotions (a single promotion is the list of one)
RECURSIVE add_promo_list(_, _)
add_promo_list(promotions, promotion) ==
    IF promotion = <<>> THEN promotions
    ELSE LET promo == Head(promotion)
         IN  add_promo_list(IF promo \notin Range(promotions)
                            THEN Append(promotions, promo) ELSE promotions,
                            Tail(promotion))

\* add_promo appending whatever it is given
add_promo_appends(self, promotion) ==
    Ok([self EXCEPT !.promotions = @ \o promotion], 0)

add_promo(self, promotion) ==
    Ok([self EXCEPT !.promotions = add_promo_list(@, promotion)], 0)

\* list.remove: drops the first occurrence
RemoveFirst(s, x) ==
    LET i == CHOOSE i \in 1..Len(s) : s[i] = x /\ \A j \in 1..(i - 1) : s[j] # x
    IN  SubSeq(s, 1, i - 1) \o SubSeq(s, i + 1, Len(s))

RECURSIVE remove_promo_list(_, _)
remove_promo_list(promotions, promotion) ==
    IF promotion = <<>> THEN promotions
    ELSE LET promo == Head(promotion)
         IN  remove_promo_list(IF promo \in Range(promotions)
                               THEN RemoveFirst(promotions, promo) ELSE promotions,
                               Tail(promotion))

remove_promo(self, promotion) ==
    Ok([self EXCEPT !.promotions = remove_promo_list(@, promotion)], 0)

\* the price under the first attached promotion only
best_price_first(self, quantity) ==
    apply_promotion(self.promotions[1], self.price, quantity)

\* the best price over the attached promotions (products.py 258-262)
best_price(self, quantity) ==
    Min({apply_promotion(self.promotions[i], self.price, quantity) :
            i \in 1..Len(self.promotions)})

\* Product.buy asking for the active flag before the stock
Product_buy_active_first(self, quantity) ==
    IF ~IsInt(quantity) \/ quantity.n <= 0 THEN Raise(self, "validation")
    ELSE IF ~self.is_active THEN Raise(self, "inactive")
    ELSE IF quantity.n > self.quantity THEN Raise(self, "stock")
    ELSE LET total_price == self.price * quantity.n * 100
         IN  IF self.promotions # <<>>
             THEN Ok(update_quantity(self, quantity).obj,
                     Round2(best_price(self, quantity.n)))
             ELSE Ok(update_quantity(self, quantity).obj, total_price)

\* Product.buy that always takes one unit off the stock
Product_buy_one_unit(self, quantity) ==
    IF ~IsInt(quantity) \/ quantity.n <= 0 THEN Raise(self, "validation")
    ELSE IF quantity.n > self.quantity THEN Raise(self, "stock")
    ELSE IF ~self.is_active THEN Raise(self, "inactive")
    ELSE LET total_price == self.price * quantity.n * 100
         IN  IF self.promotions # <<>>
             THEN Ok(update_quantity(self, IntV(1)).obj,
                     Round2(best_price(self, quantity.n)))
             ELSE Ok(update_quantity(self, IntV(1)).obj, total_price)

\* Product.buy taking the stock before it asks whether the product is active
Product_buy_takes_stock_first(self, quantity) ==
    IF ~IsInt(quantity) \/ quantity.n <= 0 THEN Raise(self, "validation")
    ELSE IF quantity.n > self.quantity THEN Raise(self, "stock")
    ELSE IF ~self.is_active
         THEN Raise(update_quantity(self, quantity).obj, "inactive")
    ELSE LET total_price == self.price * quantity.n * 100
         IN  IF self.promotions # <<>>
             THEN Ok(update_quantity(self, quantity).obj,
                     Round2(best_price(self, quantity.n)))
             ELSE Ok(update_quantity(self, quantity).obj, total_price)

\* Product.buy
Product_buy(self, quantity) ==
    IF ~IsInt(quantity) \/ quantity.n <= 0 THEN Raise(self, "validation")
    ELSE IF quantity.n > self.quantity THEN Raise(self, "stock")
    ELSE IF ~self.is_active THEN Raise(self, "inactive")
    ELSE LET total_price == self.price * quantity.n * 100
         IN  IF self.promotions # <<>>
             THEN Ok(update_quantity(self, quantity).obj,
                     Round2(best_price(self, quantity.n)))
             ELSE Ok(update_quantity(self, quantity).obj, total_price)

\* calculate_price implemented as a purchase
calculate_price_as_buy(self, quantity) == Product_buy(self, quantity)

\* Product.calculate_price
calculate_price(self, quantity) ==
    IF ~IsInt(quantity) \/ quantity.n <= 0 THEN Raise(self, "validation")
    ELSE IF ~self.is_active THEN Raise(self, "inactive")
    ELSE LET total_price == self.price * quantity.n * 100
         IN  IF self.promotions # <<>>
             THEN Ok(self, Round2(best_price(self, quantity.n)))
             ELSE Ok(self, total_price)

\* NonStockedProduct.buy charging price * quantity whatever the promotions
NonStockedProduct_buy_raw(self, quantity) ==
    IF ~IsInt(quantity) \/ quantity.n <= 0 THEN Raise(self, "validation")
    ELSE IF ~self.is_active THEN Raise(self, "inactive")
    ELSE Ok(self, self.price * quantity.n * 100)

\* NonStockedProduct.buy
NonStockedProduct_buy(self, quantity) ==
    IF ~IsInt(quantity) \/ quantity.n <= 0 THEN Raise(self, "validation")
    ELSE IF ~self.is_active THEN Raise(self, "inactive")
    ELSE LET total_price == self.price * quantity.n * 100
         IN  IF self.promotions # <<>>
             THEN Ok(self, Round2(best_price(self, quantity.n)))
             ELSE Ok(self, total_price)

\* LimitedProduct.buy without the cap
LimitedProduct_buy_no_cap(self, quantity) == Product_buy(self, quantity)

\* LimitedProduct.buy: the cap comparison comes first; comparing a str with
\* the integer cap raises TypeError
LimitedProduct_buy(self, quantity) ==
    IF quantity.t = "str" THEN Raise(self, "TypeError")
    ELSE IF Gt(quantity, self.max_quantity) THEN Raise(self, "limit")
    ELSE Product_buy(self, quantity)

\* dynamic dispatch of product.buy(quantity)
buy(self, quantity) ==
    CASE self.kind = "NonStockedProduct" -> NonStockedProduct_buy(self, quantity)
      [] self.kind = "LimitedProduct" -> LimitedProduct_buy(self, quantity)
      [] OTHER -> Product_buy(self, quantity)

(* ------------------------------- store -------------------------------- *)
\* Store.order: buys line by line and stops at the first line that raises
RECURSIVE order_loop(_, _, _, _)
order_loop(heap, shopping_list, i, total_price) ==
    IF i > Len(shopping_list)
    THEN [heap |-> heap, err |-> "none", ret |-> total_price, k |-> 0]
    ELSE LET product == shopping_list[i].product
             quantity == shopping_list[i].quantity
             r == buy(heap[product], quantity)
         IN  IF r.err # "none"
             THEN [heap |-> heap, err |-> r.err, ret |-> 0, k |-> i]
             ELSE order_loop([heap EXCEPT ![product] = r.obj], shopping_list,
                             i + 1, total_price + r.ret)

\* Store.order checking every line against the products as they were before
\* the call
RECURSIVE order_loop_stale(_, _, _, _, _)
order_loop_stale(before, heap, shopping_list, i, total_price) ==
    IF i > Len(shopping_list)
    THEN [heap |-> heap, err |-> "none", ret |-> total_price, k |-> 0]
    ELSE LET product == shopping_list[i].product
             quantity == shopping_list[i].quantity
             r == buy(before[product], quantity)
         IN  IF r.err # "none"
             THEN [heap |-> heap, err |-> r.err, ret |-> 0, k |-> i]
             ELSE order_loop_stale(before, [heap EXCEPT ![product] = r.obj],
                                   shopping_list, i + 1, total_price + r.ret)

order_against_initial_stock(heap, shopping_list) ==
    order_loop_stale(heap, heap, shopping_list, 1, 0)

\* Store.order undoing the earlier lines when a line fails
order_with_rollback(heap, shopping_list) ==
    LET r == order_loop(heap, shopping_list, 1, 0)
    IN  IF r.err # "none" THEN [r EXCEPT !.heap = heap] ELSE r

order(heap, shopping_list) == order_loop(heap, shopping_list, 1, 0)

\* Store.calculate_subtotal
RECURSIVE calculate_subtotal_loop(_, _, _, _)
calculate_subtotal_loop(heap, shopping_list, i, sub_total) ==
    IF i > Len(shopping_list)
    THEN [heap |-> heap, err |-> "none", ret |-> sub_total, k |-> 0]
    ELSE LET product == shopping_list[i].product
             quantity == shopping_list[i].quantity
             r == calculate_price(heap[product], quantity)
         IN  IF r.err # "none"
             THEN [heap |-> heap, err |-> r.err, ret |-> 0, k |-> i]
             ELSE calculate_subtotal_loop([heap EXCEPT ![product] = r.obj],
                                          shopping_list, i + 1, sub_total + r.ret)

calculate_subtotal(heap, shopping_list) ==
    calculate_subtotal_loop(heap, shopping_list, 1, 0)

\* outcomes of the store's list operations
ListOk(product_list) == [list |-> product_list, err |-> "none"]

ListRaise(product_list, err) == [list |-> product_list, err |-> err]

\* Store.__init__
Store_init(product_list) ==
    IF product_list = <<>> THEN ListRaise(product_list, "empty_list")
    ELSE ListOk(product_list)

\* Store.add_product that skips a product it already holds
add_product_unique(product_list, product, products) ==
    IF product \notin products THEN ListRaise(product_list, "not_product")
    ELSE IF product \in Range(product_list) THEN ListOk(product_list)
    ELSE ListOk(Append(product_list, product))

\* Store.add_product; products: the objects that are Product instances
add_product(product_list, product, products) ==
    IF product \notin products THEN ListRaise(product_list, "not_product")
    ELSE ListOk(Append(product_list, product))

\* drops the last occurrence
RemoveLast(s, x) ==
    LET i == CHOOSE i \in 1..Len(s) : s[i] = x /\ \A j \in (i + 1)..Len(s) : s[j] # x
    IN  SubSeq(s, 1, i - 1) \o SubSeq(s, i + 1, Len(s))

\* Store.remove_product dropping the last occurrence
remove_product_last(product_list, product) ==
    IF product \in Range(product_list)
    THEN ListOk(RemoveLast(product_list, product))
    ELSE ListRaise(product_list, "not_found")

\* Store.remove_product
remove_product(product_list, product) ==
    IF product \in Range(product_list)
    THEN ListOk(RemoveFirst(product_list, product))
    ELSE ListRaise(product_list, "not_found")

\* Store.__add__; lists: the product_list of every Store instance
Store_add(product_list, other, lists) ==
    IF other \notin DOMAIN lists THEN ListRaise(product_list, "not_store")
    ELSE LET combined_products == product_list \o lists[other]
         IN  Store_init(combined_products)

\* Store.get_total_quantity counting every product once
RECURSIVE get_total_quantity_distinct(_, _)
get_total_quantity_distinct(product_list, heap) ==
    IF product_list = <<>> THEN 0
    ELSE (IF Head(product_list) \in Range(Tail(product_list)) THEN 0
          ELSE heap[Head(product_list)].quantity)
         + get_total_quantity_distinct(Tail(product_list), heap)

\* Store.get_total_quantity
RECURSIVE get_total_quantity(_, _)
get_total_quantity(product_list, heap) ==
    IF product_list = <<>> THEN 0
    ELSE heap[Head(product_list)].quantity
         + get_total_quantity(Tail(product_list), heap)

\* Store.get_active_products returning every product
get_active_products_unfiltered(product_list, heap) == product_list

\* Store.get_active_products
RECURSIVE get_active_products(_, _)
get_active_products(product_list, heap) ==
    IF product_list = <<>> THEN <<>>
    ELSE (IF heap[Head(product_list)].is_active THEN <<Head(product_list)>> ELSE <<>>)
         \o get_active_products(Tail(product_list), heap)

\* Product.__str__ / NonStockedProduct.__str__: the parts of the text; stock
\* is <<quantity>>, or <<>> where the text reads "(Virtual Product)"
Product_str(self) ==
    [name |-> self.name, price |-> self.price,
     stock |-> IF self.kind = "NonStockedProduct" THEN <<>> ELSE <<self.quantity>>,
     promo_text |-> self.promotions]

\* Store.get_all_products
RECURSIVE get_all_products(_, _)
get_all_products(product_list, heap) ==
    IF product_list = <<>> THEN <<>>
    ELSE (IF heap[Head(product_list)].is_active
          THEN <<Product_str(heap[Head(product_list)])>> ELSE <<>>)
         \o get_all_products(Tail(product_list), heap)

(* ------------------------------ the state ----------------------------- *)
\* objs: the product objects, by reference; stores: each store's product_list;
\* lastOp: the last call made, its arguments and its outcome
Call(op, self) ==
    [op |-> op, self |-> self, arg |-> NoArg, promos |-> <<>>, items |-> <<>>,
     other |-> "", out |-> <<>>, args |-> <<>>, err |-> "none", ret |-> 0, k |-> 0]

CapInputs == -1..MaxCap

\* one product of any variant, as its constructor leaves it
InitProduct ==
    /\ stores = <<>>
    /\ \E kind \in Kinds, name \in {"", "Tablet"}, price \in PriceInputs,
          quantity \in StockInputs, is_active \in BOOLEAN,
          promotions \in PromoLists(MaxPromos), max_quantity \in CapInputs :
          LET r == CASE kind = "NonStockedProduct" ->
                          NonStockedProduct_init(name, price, is_active)
                     [] kind = "LimitedProduct" ->
                          LimitedProduct_init(name, price, quantity, max_quantity,
                                              is_active)
                     [] OTHER ->
                          Product_init(kind, name, price, quantity, is_active,
                                       promotions, 0)
          IN  /\ objs = IF r.err = "none" THEN [p \in {"p1"} |-> r.obj] ELSE <<>>
              /\ lastOp = [Call("__init__", "p1") EXCEPT !.err = r.err,
                             !.args = [kind |-> kind, name |-> name, price |-> price,
                                       quantity |-> IF kind = "NonStockedProduct"
                                                    THEN NoArg ELSE quantity,
                                       is_active |-> is_active,
                                       promotions |-> IF kind = "Product"
                                                      THEN promotions ELSE <<>>,
                                       max_quantity |-> IF kind = "LimitedProduct"
                                                        THEN max_quantity ELSE 0]]

\* the call p.<op>(arg) with outcome r
Returns(op, p, arg, r) ==
    /\ objs' = [objs EXCEPT ![p] = r.obj]
    /\ lastOp' = [Call(op, p) EXCEPT !.arg = arg, !.err = r.err, !.ret = r.ret]
    /\ UNCHANGED stores

Buy ==
    \E p \in DOMAIN objs, quantity \in QtyInputs :
        Returns("buy", p, quantity, buy(objs[p], quantity))

CalculatePrice ==
    \E p \in DOMAIN objs, quantity \in QtyInputs :
        Returns("calculate_price", p, quantity, calculate_price(objs[p], quantity))

SetPrice ==
    \E p \in DOMAIN objs, value \in PriceInputs :
        Returns("set_price", p, value, set_price(objs[p], value))

SetQuantity ==
    \E p \in DOMAIN objs, quantity \in StockInputs :
        Returns("set_quantity", p, quantity, set_quantity(objs[p], quantity))

UpdateQuantity ==
    \E p \in DOMAIN objs, quantity \in StockInputs :
        Returns("update_quantity", p, quantity, update_quantity(objs[p], quantity))

SetIsActive ==
    \E p \in DOMAIN objs, value \in BOOLEAN :
        Returns("set_is_active", p, IntV(IF value THEN 1 ELSE 0),
                set_is_active(objs[p], value))

Activate ==
    \E p \in DOMAIN objs : Returns("activate", p, NoArg, activate(objs[p]))

Deactivate ==
    \E p \in DOMAIN objs : Returns("deactivate", p, NoArg, deactivate(objs[p]))

\* arguments of add_promo / remove_promo: a single promotion, or a list
PromoArgs == {<<promo>> : promo \in PromoIds} \cup {<<"ThirdOneFree", "Percent30">>}

AddPromo ==
    \E p \in DOMAIN objs, promotion \in PromoArgs :
        /\ objs' = [objs EXCEPT ![p] = add_promo(objs[p], promotion).obj]
        /\ lastOp' = [Call("add_promo", p) EXCEPT !.promos = promotion]
        /\ UNCHANGED stores

RemovePromo ==
    \E p \in DOMAIN objs, promotion \in PromoArgs :
        /\ objs' = [objs EXCEPT ![p] = remove_promo(objs[p], promotion).obj]
        /\ lastOp' = [Call("remove_promo", p) EXCEPT !.promos = promotion]
        /\ UNCHANGED stores

NextProduct ==
    \/ Buy
    \/ CalculatePrice
    \/ SetPrice
    \/ SetQuantity
    \/ UpdateQuantity
    \/ SetIsActive
    \/ Activate
    \/ Deactivate
    \/ AddPromo
    \/ RemovePromo

\* a single product under every operation of its interface
Spec == InitProduct /\ [][NextProduct]_vars

(* ------------------------- the store under orders --------------------- *)
\* ordered quantities: within the cap of the capped product, and above it
OrderQtys == {IntV(1), IntV(2)}

ProductIds == {"p1", "p2"}

RECURSIVE ShoppingLists(_)
ShoppingLists(n) ==
    IF n = 0 THEN {<<>>}
    ELSE LET shorter == ShoppingLists(n - 1)
         IN  shorter \cup
             {Append(s, [product |-> p, quantity |-> q]) :
                 s \in {x \in shorter : Len(x) = n - 1},
                 p \in ProductIds, q \in OrderQtys}

\* a catalog as main() builds it: a stocked product with two promotions and
\* a capped product, one unit per order
InitStore ==
    /\ objs = [p \in ProductIds |->
                 IF p = "p1"
                 THEN add_promo(Product_init("Product", "MacBook Air M2",
                          FloatV(2500), IntV(MaxStock), TRUE, <<>>, 0).obj,
                          <<"SecondHalfPrice", "ThirdOneFree">>).obj
                 ELSE LimitedProduct_init("Shipping", FloatV(4),
                          IntV(MaxStock), 1, TRUE).obj]
    /\ stores = [s \in {"best_buy"} |-> <<"p1", "p2">>]
    /\ lastOp = Call("__init__", "best_buy")

Order ==
    \E s \in DOMAIN stores, shopping_list \in ShoppingLists(MaxItems) :
        LET r == order(objs, shopping_list)
        IN  /\ objs' = r.heap
            /\ lastOp' = [Call("order", s) EXCEPT !.items = shopping_list,
                              !.err = r.err, !.ret = r.ret, !.k = r.k]
            /\ UNCHANGED stores

CalculateSubtotal ==
    \E s \in DOMAIN stores, shopping_list \in ShoppingLists(MaxItems) :
        LET r == calculate_subtotal(objs, shopping_list)
        IN  /\ objs' = r.heap
            /\ lastOp' = [Call("calculate_subtotal", s) EXCEPT !.items = shopping_list,
                              !.err = r.err, !.ret = r.ret, !.k = r.k]
            /\ UNCHANGED stores

NextStore ==
    \/ Order
    \/ CalculateSubtotal
    \/ CalculatePrice
    \/ Activate
    \/ Deactivate

SpecStore == InitStore /\ [][NextStore]_vars

(* ----------------------- promotions on their own ---------------------- *)
MaxApplyQty == 9

\* every promotion the constructors accept: PercentDiscount takes any percent
AllPromotions == PromoIds \cup {"Percent100", "Percent150", "PercentMinus10"}

PromoPrices == {4, 2500, 100000, 200000}

\* a product of some price, as the promotion tests build it
InitPromo ==
    \E price \in PromoPrices :
        /\ objs = [p \in {"p1"} |->
                     Product_init("Product", "DummyProduct", FloatV(price),
                                  IntV(MaxStock), TRUE, <<>>, 0).obj]
        /\ stores = <<>>
        /\ lastOp = Call("__init__", "p1")

\* promo.apply_promotion(product, quantity)
ApplyPromotion ==
    \E p \in DOMAIN objs, promo \in AllPromotions, quantity \in 0..MaxApplyQty :
        /\ lastOp' = [Call("apply_promotion", p) EXCEPT
                          !.promos = <<promo>>, !.arg = IntV(quantity),
                          !.ret = apply_promotion(promo, objs[p].price, quantity)]
        /\ UNCHANGED <<objs, stores>>

NextPromo == ApplyPromotion

SpecPromo == InitPromo /\ [][NextPromo]_vars

(* ------------------------ the store's product list ------------------- *)
MaxStoreLen == 2

MaxOtherLen == 1

RECURSIVE ProductLists(_)
ProductLists(n) ==
    IF n = 0 THEN {<<>>}
    ELSE LET shorter == ProductLists(n - 1)
         IN  shorter \cup {Append(s, p) : s \in {x \in shorter : Len(x) = n - 1},
                                          p \in ProductIds}

\* the longest list add_product may grow store s to in this model
StoreCap(s) == IF s = "b" THEN MaxOtherLen ELSE MaxStoreLen

\* two stores a and b over a stocked product and a licence; c names the
\* result of the last a + b
InitInventory ==
    \E list_a \in ProductLists(MaxStoreLen), list_b \in ProductLists(MaxOtherLen) :
        /\ Store_init(list_a).err = "none"
        /\ Store_init(list_b).err = "none"
        /\ stores = [s \in {"a", "b"} |->
                       IF s = "a" THEN Store_init(list_a).list
                       ELSE Store_init(list_b).list]
        /\ objs = [p \in ProductIds |->
                     IF p = "p1"
                     THEN Product_init("Product", "MacBook Air M2", FloatV(2500),
                                       IntV(MaxStock), TRUE, <<>>, 0).obj
                     ELSE NonStockedProduct_init("Windows License", FloatV(2500),
                                                 TRUE).obj]
        /\ lastOp = Call("__init__", "a")

\* arguments of add_product / remove_product: a product, or something else
ProductArgs == ProductIds \cup {"not_a_product"}

AddProduct ==
    \E s \in DOMAIN stores, product \in ProductArgs :
        LET r == add_product(stores[s], product, DOMAIN objs)
        IN  /\ Len(stores[s]) < StoreCap(s)
            /\ stores' = [stores EXCEPT ![s] = r.list]
            /\ lastOp' = [Call("add_product", s) EXCEPT !.other = product,
                              !.err = r.err]
            /\ UNCHANGED objs

RemoveProduct ==
    \E s \in DOMAIN stores, product \in ProductArgs :
        LET r == remove_product(stores[s], product)
        IN  /\ stores' = [stores EXCEPT ![s] = r.list]
            /\ lastOp' = [Call("remove_product", s) EXCEPT !.other = product,
                              !.err = r.err]
            /\ UNCHANGED objs

\* c = s + other
Combine ==
    \E s \in {"a", "b"}, other \in {"a", "b", "not_a_store"} :
        LET r == Store_add(stores[s], other, stores)
        IN  /\ stores' = IF r.err = "none"
                         THEN [t \in DOMAIN stores \cup {"c"} |->
                                 IF t = "c" THEN r.list ELSE stores[t]]
                         ELSE stores
            /\ lastOp' = [Call("__add__", s) EXCEPT !.other = other, !.err = r.err]
            /\ UNCHANGED objs

NextInventory ==
    \/ AddProduct
    \/ RemoveProduct
    \/ Combine

SpecInventory == InitInventory /\ [][NextInventory]_vars

(* ------------------- the store's products being sold ----------------- *)
\* one store over a stocked product and a licence
InitShelf ==
    \E product_list \in ProductLists(MaxStoreLen) :
        /\ Store_init(product_list).err = "none"
        /\ stores = [s \in {"best_buy"} |-> Store_init(product_list).list]
        /\ objs = [p \in ProductIds |->
                     IF p = "p1"
                     THEN Product_init("Product", "MacBook Air M2", FloatV(2500),
                                       IntV(MaxStock), TRUE, <<>>, 0).obj
                     ELSE NonStockedProduct_init("Windows License", FloatV(2500),
                                                 TRUE).obj]
        /\ lastOp = Call("__init__", "best_buy")

GetTotalQuantity ==
    \E s \in DOMAIN stores :
        /\ lastOp' = [Call("get_total_quantity", s) EXCEPT
                          !.ret = get_total_quantity(stores[s], objs)]
        /\ UNCHANGED <<objs, stores>>

GetActiveProducts ==
    \E s \in DOMAIN stores :
        /\ lastOp' = [Call("get_active_products", s) EXCEPT
                          !.out = get_active_products(stores[s], objs)]
        /\ UNCHANGED <<objs, stores>>

GetAllProducts ==
    \E s \in DOMAIN stores :
        /\ lastOp' = [Call("get_all_products", s) EXCEPT
                          !.out = get_all_products(stores[s], objs)]
        /\ UNCHANGED <<objs, stores>>

NextShelf ==
    \/ AddProduct
    \/ RemoveProduct
    \/ Buy
    \/ Order
    \/ Activate
    \/ Deactivate
    \/ GetTotalQuantity
    \/ GetActiveProducts
    \/ GetAllProducts

SpecShelf == InitShelf /\ [][NextShelf]_vars

(* ----------------------- the fields of a product -------------------- *)
\* prices a caller passes, float("nan") among them
PriceValues == PriceInputs \cup {NaNV}

\* a product of any variant built without promotions
InitFields ==
    /\ stores = <<>>
    /\ \E kind \in Kinds, price \in PriceValues, quantity \in StockInputs,
          max_quantity \in {1, MaxCap} :
          LET r == CASE kind = "NonStockedProduct" ->
                          NonStockedProduct_init("Tablet", price, TRUE)
                     [] kind = "LimitedProduct" ->
                          LimitedProduct_init("Tablet", price, quantity, max_quantity,
                                              TRUE)
                     [] OTHER ->
                          Product_init(kind, "Tablet", price, quantity, TRUE, <<>>, 0)
          IN  /\ objs = IF r.err = "none" THEN [p \in {"p1"} |-> r.obj] ELSE <<>>
              /\ lastOp = [Call("__init__", "p1") EXCEPT !.err = r.err]

AssignPrice ==
    \E p \in DOMAIN objs, value \in PriceValues :
        Returns("set_price", p, value, set_price(objs[p], value))

\* buy on a product whose price is a number: the total of a NaN price is NaN,
\* which the totals of this model cannot hold
BuyPriced ==
    \E p \in DOMAIN objs, quantity \in QtyInputs :
        /\ objs[p].price # NaNPrice
        /\ Returns("buy", p, quantity, buy(objs[p], quantity))

NextFields ==
    \/ AssignPrice
    \/ SetQuantity
    \/ UpdateQuantity
    \/ BuyPriced

SpecFields == InitFields /\ [][NextFields]_vars

(* ----------------------- the interactive order flow ------------------ *)
\* main.make_order runs between prompts. While it runs, lastOp is the call
\* make_order(store): items is reserved_quantities (a dict, as its items in
\* insertion order), other the product chosen at the last product prompt,
\* arg the last amount accepted, ret the running total (or the payment), err
\* the exception that escaped, and k the prompt the flow is waiting at.
MaxAmount == 2

MaxReserved == 2

Returned == 0

AtProductPrompt == 1

AtAmountPrompt == 2

FlowProducts == {"p1", "p2", "p3"}

\* reserved_quantities.get(product, 0)
reserved_get(reserved_quantities, product) ==
    IF \E i \in 1..Len(reserved_quantities) : reserved_quantities[i].product = product
    THEN LET i == CHOOSE i \in 1..Len(reserved_quantities) :
                      reserved_quantities[i].product = product
         IN  reserved_quantities[i].quantity.n
    ELSE 0

\* reserved_quantities[product] = qty: a present key keeps its place, a new
\* key goes last
reserved_set(reserved_quantities, product, qty) ==
    IF \E i \in 1..Len(reserved_quantities) : reserved_quantities[i].product = product
    THEN [i \in 1..Len(reserved_quantities) |->
            IF reserved_quantities[i].product = product
            THEN [product |-> product, quantity |-> IntV(qty)]
            ELSE reserved_quantities[i]]
    ELSE Append(reserved_quantities, [product |-> product, quantity |-> IntV(qty)])

\* show_available_products_for_order: the products offered at the product
\* prompt
RECURSIVE available_for_order(_, _, _)
available_for_order(active_products, heap, reserved_quantities) ==
    IF active_products = <<>> THEN <<>>
    ELSE LET product == Head(active_products)
             reserved == reserved_get(reserved_quantities, product)
         IN  (IF heap[product].kind = "NonStockedProduct" THEN <<product>>
              ELSE IF reserved < heap[product].quantity THEN <<product>>
              ELSE <<>>)
             \o available_for_order(Tail(active_products), heap, reserved_quantities)

show_available_products_for_order(product_list, heap, reserved_quantities) ==
    available_for_order(get_active_products(product_list, heap), heap,
                        reserved_quantities)

\* make_order's checks of an amount typed in digits: TRUE when it is reserved,
\* FALSE when the prompt is repeated
amount_accepted(self, reserved, amount) ==
    IF self.kind = "LimitedProduct" /\ amount > self.max_quantity THEN FALSE
    ELSE IF self.kind # "NonStockedProduct"
         THEN LET available_to_order == self.quantity - reserved
              IN  ~(amount <= 0 \/ amount > available_to_order)
         ELSE TRUE

\* the running total of make_order: calculate_price over the reserved items
current_total(heap, reserved_quantities) ==
    calculate_subtotal_loop(heap, reserved_quantities, 1, 0)

\* the catalog of main(), three of its products: a stocked one and a licence
\* with their promotions, and shipping, one per order
InitFlow ==
    /\ objs = [p \in FlowProducts |->
                 CASE p = "p1" ->
                        add_promo(Product_init("Product", "MacBook Air M2",
                            FloatV(2500), IntV(MaxStock), TRUE, <<>>, 0).obj,
                            <<"SecondHalfPrice">>).obj
                   [] p = "p2" ->
                        add_promo(NonStockedProduct_init("Windows License",
                            FloatV(2500), TRUE).obj, <<"Percent30">>).obj
                   [] OTHER ->
                        LimitedProduct_init("Shipping", FloatV(4), IntV(MaxCap), 1,
                                            TRUE).obj]
    /\ stores = [s \in {"best_buy"} |-> <<"p1", "p2", "p3">>]
    /\ lastOp = [Call("make_order", "best_buy") EXCEPT !.k = AtProductPrompt]

InFlow(position) ==
    /\ lastOp.op = "make_order"
    /\ lastOp.k = position

\* the products offered now
Offered ==
    show_available_products_for_order(stores[lastOp.self], objs, lastOp.items)

\* a valid product number is typed at the product prompt
ChooseProduct ==
    /\ InFlow(AtProductPrompt)
    /\ \E product_nr \in 1..Len(Offered) :
          lastOp' = [lastOp EXCEPT !.other = Offered[product_nr],
                                   !.k = AtAmountPrompt]
    /\ UNCHANGED <<objs, stores>>

\* an amount is typed in digits at the amount prompt: it is refused and asked
\* again, or reserved and the running total is computed
EnterAmount ==
    /\ InFlow(AtAmountPrompt)
    /\ \E amount \in 0..MaxAmount :
          LET product == lastOp.other
              reserved == reserved_get(lastOp.items, product)
              reserved_quantities == reserved_set(lastOp.items, product,
                                                  reserved + amount)
              r == current_total(objs, reserved_quantities)
          IN  /\ objs[product].kind = "NonStockedProduct" =>
                    reserved + amount <= MaxReserved
              /\ IF amount_accepted(objs[product], reserved, amount)
                 THEN lastOp' = [lastOp EXCEPT !.items = reserved_quantities,
                                     !.arg = IntV(amount), !.ret = r.ret,
                                     !.err = r.err,
                                     !.k = IF r.err = "none" THEN AtProductPrompt
                                           ELSE Returned]
                 ELSE lastOp' = [lastOp EXCEPT !.arg = IntV(amount)]
    /\ UNCHANGED <<objs, stores>>

\* ENTER at the amount prompt: nothing is reserved, the running total is
\* computed
SkipAmount ==
    /\ InFlow(AtAmountPrompt)
    /\ LET r == current_total(objs, lastOp.items)
       IN  lastOp' = [lastOp EXCEPT !.arg = NoArg, !.ret = r.ret, !.err = r.err,
                          !.k = IF r.err = "none" THEN AtProductPrompt
                                ELSE Returned]
    /\ UNCHANGED <<objs, stores>>

\* q at either prompt
CancelOrder ==
    /\ \/ InFlow(AtProductPrompt) /\ Offered # <<>>
       \/ InFlow(AtAmountPrompt)
    /\ lastOp' = [Call("make_order", lastOp.self) EXCEPT !.k = Returned]
    /\ UNCHANGED <<objs, stores>>

\* ENTER at the product prompt, or nothing left to offer: the reserved items
\* are ordered
FinishOrder ==
    /\ InFlow(AtProductPrompt)
    /\ IF lastOp.items # <<>>
       THEN LET shopping_list == lastOp.items
                r == order(objs, shopping_list)
            IN  /\ objs' = r.heap
                /\ lastOp' = [lastOp EXCEPT !.ret = r.ret, !.err = r.err,
                                  !.k = Returned]
       ELSE /\ objs' = objs
            /\ lastOp' = [lastOp EXCEPT !.k = Returned]
    /\ UNCHANGED stores

\* back in the menu, "3. Make an order" is chosen again
MakeOrder ==
    /\ InFlow(Returned)
    /\ lastOp.err = "none"
    /\ lastOp' = [Call("make_order", lastOp.self) EXCEPT !.k = AtProductPrompt]
    /\ UNCHANGED <<objs, stores>>

NextFlow ==
    \/ ChooseProduct
    \/ EnterAmount
    \/ SkipAmount
    \/ CancelOrder
    \/ FinishOrder
    \/ MakeOrder

SpecFlow == InitFlow /\ [][NextFlow]_vars

TypeOK ==
    /\ \A p \in DOMAIN objs :
          /\ objs[p].kind \in Kinds
          /\ objs[p].price \in PriceMills
          /\ objs[p].quantity \in 0..MaxStock
          /\ objs[p].is_active \in BOOLEAN
          /\ Range(objs[p].promotions) \subseteq PromoIds
    /\ lastOp.err \in {"none", "validation", "stock", "inactive", "limit", "TypeError",
                      "empty_list", "not_product", "not_found", "not_store"}

(* ------------------------------ properties ---------------------------- *)
Stocked(self) == self.kind \in {"Product", "LimitedProduct"}

PositiveInt(v) == IsInt(v) /\ v.n > 0

\* the step is the call p.buy(quantity)
BuyStep == lastOp'.op = "buy"

\* units of product p bought by the first n lines of a shopping list
RECURSIVE Bought(_, _, _)
Bought(shopping_list, n, p) ==
    IF n = 0 THEN 0
    ELSE Bought(shopping_list, n - 1, p) +
         (IF shopping_list[n].product = p THEN shopping_list[n].quantity.n ELSE 0)

\* C1 as stated: in every reachable state a stock-tracked product with
\* quantity 0 is inactive.
C1_ZeroImpliesInactive ==
    \A p \in DOMAIN objs :
        Stocked(objs[p]) /\ objs[p].quantity = 0 => ~objs[p].is_active

\* C1 amended: after every successful quantity assignment, update_quantity or
\* buy on a stock-tracked product, quantity 0 implies the product is inactive.
C1_QuantityMutationDeactivates ==
    /\ lastOp.op \in {"set_quantity", "update_quantity", "buy"}
    /\ lastOp.err = "none"
    /\ Stocked(objs[lastOp.self])
    /\ objs[lastOp.self].quantity = 0
    => ~objs[lastOp.self].is_active

C1_Witness ==
    /\ lastOp.op = "buy"
    /\ lastOp.err = "none"
    /\ Stocked(objs[lastOp.self])
    /\ objs[lastOp.self].quantity = 0
    /\ ~objs[lastOp.self].is_active

\* what a failed order leaves behind, for the products in the set ps: the
\* lines before the failing line k are bought, nothing else has changed
CommittedPrefix(ps) ==
    LET shopping_list == lastOp'.items
        k == lastOp'.k
    IN  \A p \in ps :
            LET n == Bought(shopping_list, k - 1, p)
            IN  IF n = 0 THEN objs'[p] = objs[p]
                ELSE objs'[p] = [objs[p] EXCEPT !.quantity = @ - n,
                                               !.is_active = (objs[p].quantity - n # 0)]

FailedOrderStep == lastOp'.op = "order" /\ lastOp'.err # "none"

C3_StockBeforeActive ==
    [][BuyStep /\ Stocked(objs[lastOp'.self]) /\ PositiveInt(lastOp'.arg) =>
         LET self == objs[lastOp'.self]
             q == lastOp'.arg.n
         IN  /\ q > self.quantity => lastOp'.err = "stock"
             /\ lastOp'.err = "inactive" => q <= self.quantity /\ ~self.is_active]_vars

\* C3 amended: the same, for a Product and for a LimitedProduct when q is
\* within max_quantity (above it the limit error comes first).
C3_StockBeforeActiveWithinCap ==
    [][BuyStep /\ Stocked(objs[lastOp'.self]) /\ PositiveInt(lastOp'.arg) =>
         LET self == objs[lastOp'.self]
             q == lastOp'.arg.n
             within_cap == self.kind = "LimitedProduct" => q <= self.max_quantity
         IN  /\ within_cap /\ q > self.quantity => lastOp'.err = "stock"
             /\ lastOp'.err = "inactive" => q <= self.quantity /\ ~self.is_active]_vars

C3_Witness ==
    /\ lastOp.op = "buy"
    /\ lastOp.err = "stock"
    /\ PositiveInt(lastOp.arg)
    /\ ~objs[lastOp.self].is_active
    /\ objs[lastOp.self].quantity > 0

\* C4: on a LimitedProduct, buy(q) reports the first failing check in the
\* order validation, cap, stock: a q that is not a positive integer gives the
\* validation error, a positive integer q above the cap gives the limit error,
\* and one within the cap but above the stock the insufficient-stock error.
C4_CheckOrder ==
    [][BuyStep /\ objs[lastOp'.self].kind = "LimitedProduct" =>
         LET self == objs[lastOp'.self]
             q == lastOp'.arg
         IN  /\ ~PositiveInt(q) => lastOp'.err = "validation"
             /\ PositiveInt(q) /\ q.n > self.max_quantity => lastOp'.err = "limit"
             /\ PositiveInt(q) /\ q.n <= self.max_quantity /\ q.n > self.quantity
                    => lastOp'.err = "stock"]_vars

\* C5: a successful buy(q) on a Product or LimitedProduct takes exactly q off
\* the quantity, deactivates the product exactly when that leaves 0, and
\* changes nothing else.
C5_BuyEffect ==
    [][BuyStep /\ lastOp'.err = "none" /\ Stocked(objs[lastOp'.self]) =>
         LET p == lastOp'.self
             q == lastOp'.arg.n
         IN  objs' = [objs EXCEPT ![p] =
                        [@ EXCEPT !.quantity = @ - q,
                                  !.is_active = IF objs[p].quantity - q = 0
                                                THEN FALSE ELSE @]]]_vars

C5_Witness ==
    /\ lastOp.op = "buy"
    /\ lastOp.err = "none"
    /\ lastOp.arg.n = 2
    /\ Stocked(objs[lastOp.self])
    /\ objs[lastOp.self].quantity > 0
    /\ objs[lastOp.self].is_active

\* C6: whenever buy(q) succeeds, on any variant, the total it returns is the
\* total calculate_price(q) returns in the state before the purchase.
C6_BuyChargesTheQuote ==
    [][BuyStep /\ lastOp'.err = "none" =>
         LET quote == calculate_price(objs[lastOp'.self], lastOp'.arg)
         IN  quote.err = "none" /\ lastOp'.ret = quote.ret]_vars

C6_Witness ==
    /\ lastOp.op = "buy"
    /\ lastOp.err = "none"
    /\ objs[lastOp.self].kind = "NonStockedProduct"
    /\ objs[lastOp.self].promotions # <<>>
    /\ lastOp.ret # objs[lastOp.self].price * lastOp.arg.n * 100

\* C7: calculate_price and calculate_subtotal change no product and no store,
\* whether they succeed or fail, and the same call made twice in a row
\* returns the same outcome.
C7_QuoteReadOnly ==
    [][lastOp'.op \in {"calculate_price", "calculate_subtotal"} =>
         /\ objs' = objs
         /\ stores' = stores
         /\ (/\ lastOp.op = lastOp'.op
             /\ lastOp.self = lastOp'.self
             /\ lastOp.arg = lastOp'.arg
             /\ lastOp.items = lastOp'.items
             => lastOp'.ret = lastOp.ret /\ lastOp'.err = lastOp.err)]_vars

C7_Witness ==
    /\ lastOp.op = "calculate_subtotal"
    /\ lastOp.err = "none"
    /\ Len(lastOp.items) = 2
    /\ lastOp.ret > 0

\* C8: on a NonStockedProduct, buy(n) of an active product succeeds for every
\* positive integer n and leaves quantity at 0 and the product active; buy
\* fails only for an n that is not a positive integer or an inactive product.
C8_NonStockedBuy ==
    [][BuyStep /\ objs[lastOp'.self].kind = "NonStockedProduct" =>
         LET p == lastOp'.self
             n == lastOp'.arg
         IN  /\ objs[p].is_active /\ PositiveInt(n) =>
                    /\ lastOp'.err = "none"
                    /\ objs'[p].quantity = 0
                    /\ objs'[p].is_active
             /\ lastOp'.err # "none" => ~PositiveInt(n) \/ ~objs[p].is_active]_vars

\* C9: the quantity of a NonStockedProduct is 0 in every reachable state.
C9_NonStockedQuantityZero ==
    \A p \in DOMAIN objs :
        objs[p].kind = "NonStockedProduct" => objs[p].quantity = 0

\* C10: a LimitedProduct rejects every buy(q) with q above max_quantity,
\* whatever the stock, leaving the product as it was; so no successful buy
\* takes more than max_quantity units.
C10_CapEnforced ==
    [][BuyStep /\ objs[lastOp'.self].kind = "LimitedProduct" =>
         LET p == lastOp'.self
             q == lastOp'.arg
         IN  /\ IsNumber(q) /\ Gt(q, objs[p].max_quantity) =>
                    lastOp'.err = "limit" /\ objs' = objs
             /\ lastOp'.err = "none" =>
                    objs[p].quantity - objs'[p].quantity <= objs[p].max_quantity]_vars

C10_Witness ==
    /\ lastOp.op = "buy"
    /\ lastOp.err = "limit"
    /\ objs[lastOp.self].kind = "LimitedProduct"
    /\ PositiveInt(lastOp.arg)
    /\ lastOp.arg.n <= objs[lastOp.self].quantity
    /\ objs[lastOp.self].is_active

\* C11: assigning a non-negative integer v to the quantity of a Product or
\* LimitedProduct makes the quantity v, deactivates the product when v = 0
\* and leaves is_active alone when v > 0; any other v fails and changes
\* nothing.
C11_QuantityAssignment ==
    [][lastOp'.op = "set_quantity" /\ Stocked(objs[lastOp'.self]) =>
         LET p == lastOp'.self
             v == lastOp'.arg
         IN  IF IsInt(v) /\ v.n >= 0
             THEN /\ lastOp'.err = "none"
                  /\ objs' = [objs EXCEPT ![p] =
                                [@ EXCEPT !.quantity = v.n,
                                          !.is_active = (v.n # 0 /\ objs[p].is_active)]]
             ELSE lastOp'.err # "none" /\ objs' = objs]_vars

C11_Witness ==
    /\ lastOp.op = "set_quantity"
    /\ lastOp.err = "none"
    /\ lastOp.arg = IntV(0)
    /\ Stocked(objs[lastOp.self])
    /\ objs[lastOp.self].quantity = 0
    /\ ~objs[lastOp.self].is_active

\* the totals the attached promotions give for quantity q
Candidates(self, q) ==
    {apply_promotion(self.promotions[i], self.price, q) : i \in 1..Len(self.promotions)}

PricedStep == lastOp'.op \in {"buy", "calculate_price"} /\ lastOp'.err = "none"

\* C12 as stated: the charged or quoted total is the minimum of the
\* promotions' totals when promotions are attached, and price * q otherwise.
C12_TotalIsMinimum ==
    [][PricedStep =>
         LET self == objs[lastOp'.self]
             q == lastOp'.arg.n
         IN  IF self.promotions # <<>>
             THEN /\ lastOp'.ret \in Candidates(self, q)
                  /\ \A c \in Candidates(self, q) : lastOp'.ret <= c
             ELSE lastOp'.ret = self.price * q * 100]_vars

\* C12 amended: with promotions attached the total is the minimum of the
\* promotions' totals rounded to 2 decimals (never a sum); without promotions
\* it is price * q, not rounded.
C12_TotalIsRoundedMinimum ==
    [][PricedStep =>
         LET self == objs[lastOp'.self]
             q == lastOp'.arg.n
         IN  IF self.promotions # <<>>
             THEN \E m \in Candidates(self, q) :
                     /\ \A c \in Candidates(self, q) : m <= c
                     /\ lastOp'.ret = Round2(m)
             ELSE lastOp'.ret = self.price * q * 100]_vars

C12_Witness ==
    /\ lastOp.op = "buy"
    /\ lastOp.err = "none"
    /\ lastOp.arg.n = 3
    /\ objs[lastOp.self].promotions = <<"SecondHalfPrice", "ThirdOneFree">>
    /\ lastOp.ret = ThirdOneFree_apply_promotion(objs[lastOp.self].price, 3)
    /\ lastOp.ret < SecondHalfPrice_apply_promotion(objs[lastOp.self].price, 3)

\* the last call applied promotion promo
Applied(promo) == lastOp.op = "apply_promotion" /\ lastOp.promos = <<promo>>

\* C13: for every promotion that can be constructed, every price and every
\* quantity q >= 1, apply_promotion returns a total between 0 and price * q.
C13_TotalWithinBounds ==
    lastOp.op = "apply_promotion" /\ lastOp.arg.n >= 1 =>
        /\ 0 <= lastOp.ret
        /\ lastOp.ret <= objs[lastOp.self].price * lastOp.arg.n * 100

\* totals of the promotion tests, in currency units at price 100
ThirdOneFreeTable == <<0, 100, 200, 200, 300, 400, 400, 500, 600, 600>>

SecondHalfPriceTable == <<100, 150, 250, 300>>

\* C14: ThirdOneFree charges every unit but each third one, gives
\* 0,100,200,200,300,400,400,500,600,600 for q = 0..9 at price 100, and never
\* charges less for one unit more.
C14_ThirdOneFree ==
    Applied("ThirdOneFree") =>
        LET q == lastOp.arg.n
            price == objs[lastOp.self].price
        IN  /\ lastOp.ret = (q - (q \div 3)) * price * 100
            /\ price = 100000 /\ q <= 9 =>
                   lastOp.ret = ThirdOneFreeTable[q + 1] * 100000
            /\ lastOp.ret <= apply_promotion("ThirdOneFree", price, q + 1)

C14_Witness ==
    /\ Applied("ThirdOneFree")
    /\ lastOp.arg.n = 9
    /\ objs[lastOp.self].price = 100000
    /\ lastOp.ret = 60000000

\* C15: SecondHalfPrice charges, for q >= 1, half the price for one unit of
\* each pair and the full price for every other unit; at price 100 it gives
\* 100, 150, 250, 300 for q = 1..4.
C15_SecondHalfPrice ==
    Applied("SecondHalfPrice") /\ lastOp.arg.n >= 1 =>
        LET q == lastOp.arg.n
            price == objs[lastOp.self].price
        IN  /\ lastOp.ret = ((q - (q \div 2)) * 100 * price) + ((q \div 2) * 50 * price)
            /\ price = 100000 /\ q <= 4 =>
                   lastOp.ret = SecondHalfPriceTable[q] * 100000

C15_Witness ==
    /\ Applied("SecondHalfPrice")
    /\ lastOp.arg.n = 3
    /\ objs[lastOp.self].price = 100000
    /\ lastOp.ret = 25000000

\* C16: PercentDiscount with a percent in (0, 100] charges price * q less
\* percent hundredths of it, for q >= 1: 30% at price 200 and q = 3 gives 420,
\* and 100% gives 0.
C16_PercentDiscount ==
    /\ lastOp.op = "apply_promotion"
    /\ lastOp.promos \in {<<"Percent30">>, <<"Percent100">>}
    /\ lastOp.arg.n >= 1
    => LET q == lastOp.arg.n
           price == objs[lastOp.self].price
           pct == IF lastOp.promos = <<"Percent30">> THEN 30 ELSE 100
       IN  /\ lastOp.ret = (price * q * 100) - (price * q * pct)
           /\ pct = 30 /\ price = 200000 /\ q = 3 => lastOp.ret = 42000000
           /\ pct = 100 => lastOp.ret = 0

C16_Witness ==
    /\ Applied("Percent30")
    /\ lastOp.arg.n = 3
    /\ objs[lastOp.self].price = 200000
    /\ lastOp.ret = 42000000

\* product p as the first n lines of a shopping list leave it, when each of
\* them was bought
AfterLines(shopping_list, n, p) ==
    LET taken == Bought(shopping_list, n, p)
    IN  IF taken = 0 THEN objs[p]
        ELSE [objs[p] EXCEPT !.quantity = @ - taken,
                             !.is_active = (objs[p].quantity - taken # 0)]

\* the outcome of line i on its own, bought after the lines before it
LineOutcome(shopping_list, i) ==
    buy(AfterLines(shopping_list, i - 1, shopping_list[i].product),
        shopping_list[i].quantity)

RECURSIVE TotalOfLines(_, _)
TotalOfLines(shopping_list, n) ==
    IF n = 0 THEN 0
    ELSE TotalOfLines(shopping_list, n - 1) + LineOutcome(shopping_list, n).ret

CombineStep == lastOp'.op = "__add__"

\* C18: for any two stores reachable through construction, add_product and
\* remove_product, s + other returns a new store whose sequence is s's
\* followed by other's and leaves both operands' sequences unchanged; a later
\* add_product or remove_product on the result leaves the operands alone; a
\* non-Store operand fails.
C18_Combine ==
    [][/\ CombineStep /\ lastOp'.other \in DOMAIN stores =>
            /\ lastOp'.err = "none"
            /\ "c" \in DOMAIN stores'
            /\ stores'["c"] = stores[lastOp'.self] \o stores[lastOp'.other]
            /\ Len(stores'["c"]) = Len(stores[lastOp'.self]) + Len(stores[lastOp'.other])
            /\ stores'["a"] = stores["a"]
            /\ stores'["b"] = stores["b"]
       /\ CombineStep /\ lastOp'.other \notin DOMAIN stores =>
            /\ lastOp'.err # "none"
            /\ stores' = stores
       /\ lastOp'.op \in {"add_product", "remove_product"} /\ lastOp'.self = "c" =>
            /\ stores'["a"] = stores["a"]
            /\ stores'["b"] = stores["b"]]_vars

\* s with its i-th entry taken out
Without(s, i) == SubSeq(s, 1, i - 1) \o SubSeq(s, i + 1, Len(s))

\* C19: remove_product(p) removes exactly one entry of the store's sequence,
\* the first occurrence of p, keeping every other entry in order; an absent p
\* fails with the not-found error and leaves the sequence unchanged; no
\* product's quantity or is_active changes either way.
C19_RemoveFirstOccurrence ==
    [][lastOp'.op = "remove_product" =>
         LET s == lastOp'.self
             p == lastOp'.other
         IN  /\ p \in Range(stores[s]) =>
                   /\ lastOp'.err = "none"
                   /\ Len(stores'[s]) = Len(stores[s]) - 1
                   /\ \E i \in 1..Len(stores[s]) :
                          /\ stores[s][i] = p
                          /\ \A j \in 1..(i - 1) : stores[s][j] # p
                          /\ stores'[s] = Without(stores[s], i)
             /\ p \notin Range(stores[s]) =>
                   /\ lastOp'.err = "not_found"
                   /\ stores'[s] = stores[s]
             /\ \A t \in DOMAIN stores \ {s} : stores'[t] = stores[t]
             /\ \A q \in DOMAIN objs :
                   /\ objs'[q].quantity = objs[q].quantity
                   /\ objs'[q].is_active = objs[q].is_active]_vars

\* a product held twice was removed: the later entry is still there, behind
\* the entry that stood between the two
C19_Witness ==
    /\ lastOp.op = "remove_product"
    /\ lastOp.err = "none"
    /\ lastOp.other = "p1"
    /\ stores[lastOp.self] = <<"p2", "p1">>

\* C20: add_product(p) with a Product appends p at the end: the existing
\* entries and their order are unchanged and the length grows by 1, also when
\* p is already present; with a non-Product it fails and the sequence is
\* unchanged.
C20_AddAppends ==
    [][lastOp'.op = "add_product" =>
         LET s == lastOp'.self
             p == lastOp'.other
         IN  /\ p \in DOMAIN objs =>
                   /\ lastOp'.err = "none"
                   /\ Len(stores'[s]) = Len(stores[s]) + 1
                   /\ SubSeq(stores'[s], 1, Len(stores[s])) = stores[s]
                   /\ stores'[s][Len(stores'[s])] = p
             /\ p \notin DOMAIN objs =>
                   /\ lastOp'.err # "none"
                   /\ stores'[s] = stores[s]
             /\ \A t \in DOMAIN stores \ {s} : stores'[t] = stores[t]]_vars

\* a product the store already held was added again
C20_Witness ==
    /\ lastOp.op = "add_product"
    /\ lastOp.err = "none"
    /\ stores[lastOp.self] = <<"p1", "p1">>

\* the entries of a store's sequence that are active, in store order
ActiveEntries(product_list, heap) ==
    LET active(p) == heap[p].is_active
    IN  SelectSeq(product_list, active)

\* C21: get_active_products() returns exactly the store's products that are
\* active at the time of the call, in store order, and get_all_products()
\* returns their string forms; neither changes a product or the store.
C21_ActiveInStoreOrder ==
    [][lastOp'.op \in {"get_active_products", "get_all_products"} =>
         LET expected == ActiveEntries(stores[lastOp'.self], objs)
         IN  /\ lastOp'.op = "get_active_products" => lastOp'.out = expected
             /\ lastOp'.op = "get_all_products" =>
                   lastOp'.out = [i \in 1..Len(expected) |-> Product_str(objs[expected[i]])]
             /\ UNCHANGED <<objs, stores>>]_vars

\* the stocked product is sold out and no longer listed; the licence behind
\* it is
C21_Witness ==
    /\ lastOp.op = "get_active_products"
    /\ stores[lastOp.self] = <<"p1", "p2">>
    /\ objs["p1"].quantity = 0
    /\ ~objs["p1"].is_active
    /\ lastOp.out = <<"p2">>

\* how many entries of the sequence are product p
Occurrences(product_list, p) ==
    Cardinality({i \in 1..Len(product_list) : product_list[i] = p})

\* the sum over the products in S of entries * amount, for amount.p1, amount.p2
RECURSIVE SumPerProduct(_, _, _)
SumPerProduct(S, entries, amount) ==
    IF S = {} THEN 0
    ELSE LET p == CHOOSE x \in S : TRUE
         IN  entries[p] * amount[p] + SumPerProduct(S \ {p}, entries, amount)

\* the stock held by the entries of a sequence, stock-tracked products only
StockOfEntries(product_list, heap) ==
    SumPerProduct({p \in DOMAIN heap : Stocked(heap[p])},
                  [p \in DOMAIN heap |-> Occurrences(product_list, p)],
                  [p \in DOMAIN heap |-> heap[p].quantity])

\* the step is a successful order on products of the store
OrderedFromStore ==
    /\ lastOp'.op = "order"
    /\ lastOp'.err = "none"
    /\ \A i \in 1..Len(lastOp'.items) :
          lastOp'.items[i].product \in Range(stores[lastOp'.self])

\* units ordered of product p by the step's shopping list
Ordered == [p \in DOMAIN objs |-> Bought(lastOp'.items, Len(lastOp'.items), p)]

\* C22 as stated: get_total_quantity() is the sum of quantity over the
\* entries of the store's sequence, NonStockedProducts contributing 0, and a
\* successful order of n stock-tracked units on products of the store
\* lowers it by exactly n.
C22_TotalQuantity ==
    [][/\ lastOp'.op = "get_total_quantity" =>
            lastOp'.ret = StockOfEntries(stores[lastOp'.self], objs)
       /\ OrderedFromStore =>
            get_total_quantity(stores[lastOp'.self], objs') =
                get_total_quantity(stores[lastOp'.self], objs)
                - SumPerProduct({p \in DOMAIN objs : Stocked(objs[p])},
                                [p \in DOMAIN objs |-> 1], Ordered)]_vars

\* C22 amended: get_total_quantity() is the sum of quantity over the entries
\* of the store's sequence, NonStockedProducts contributing 0, and a
\* successful order on products of the store lowers it by the ordered
\* stock-tracked quantity of each product times the number of entries the
\* store holds of that product.
C22_TotalQuantityPerEntry ==
    [][/\ lastOp'.op = "get_total_quantity" =>
            lastOp'.ret = StockOfEntries(stores[lastOp'.self], objs)
       /\ OrderedFromStore =>
            get_total_quantity(stores[lastOp'.self], objs') =
                get_total_quantity(stores[lastOp'.self], objs)
                - SumPerProduct({p \in DOMAIN objs : Stocked(objs[p])},
                                [p \in DOMAIN objs |->
                                    Occurrences(stores[lastOp'.self], p)],
                                Ordered)]_vars

\* the total of a store holding the stocked product twice was read after a
\* purchase
C22_Witness ==
    /\ lastOp.op = "get_total_quantity"
    /\ Occurrences(stores[lastOp.self], "p1") = 2
    /\ objs["p1"].quantity \in 1..(MaxStock - 1)
    /\ lastOp.ret = 2 * objs["p1"].quantity

\* C23: Product(name, price, quantity) with a non-empty name, a price > 0 and
\* an integer quantity >= 0 yields a product holding exactly those values,
\* active and without promotions; with an empty name, a price <= 0 or a
\* negative quantity it fails and no product exists.
C23_Construction ==
    LET a == lastOp.args
    IN  /\ lastOp.op = "__init__"
        /\ a.kind = "Product"
        /\ a.is_active
        /\ a.promotions = <<>>
        => /\ /\ a.name # ""
              /\ IsNumber(a.price) /\ a.price # NaNV /\ a.price.n > 0
              /\ IsInt(a.quantity) /\ a.quantity.n >= 0
              => /\ lastOp.err = "none"
                 /\ DOMAIN objs = {lastOp.self}
                 /\ objs[lastOp.self].kind = "Product"
                 /\ objs[lastOp.self].name = a.name
                 /\ objs[lastOp.self].price = float_price(a.price)
                 /\ objs[lastOp.self].quantity = a.quantity.n
                 /\ objs[lastOp.self].is_active
                 /\ objs[lastOp.self].promotions = <<>>
           /\ \/ a.name = ""
              \/ IsNumber(a.price) /\ LeZero(a.price)
              \/ IsInt(a.quantity) /\ a.quantity.n < 0
              => /\ lastOp.err # "none"
                 /\ objs = <<>>

\* a product constructed without stock: it is active all the same
C23_Witness ==
    /\ lastOp.op = "__init__"
    /\ lastOp.err = "none"
    /\ lastOp.args.kind = "Product"
    /\ lastOp.args.is_active
    /\ lastOp.args.promotions = <<>>
    /\ lastOp.args.quantity = IntV(0)
    /\ objs[lastOp.self].quantity = 0
    /\ objs[lastOp.self].is_active

NoDuplicates(s) == \A i, j \in 1..Len(s) : s[i] = s[j] => i = j

\* C24: add_promo and remove_promo are idempotent set operations, for a single
\* promotion and for a list: add_promo adds exactly the promotions not yet
\* attached and a second identical call changes nothing; remove_promo of
\* promotions that are not attached leaves the list unchanged; a list without
\* a promotion twice (the empty list of a product built without promotions)
\* stays so under both, and remove_promo then removes exactly the given
\* promotions and a second identical call changes nothing.
C24_PromoSetOperations ==
    [][lastOp'.op \in {"add_promo", "remove_promo"} =>
         LET p == lastOp'.self
             promotion == lastOp'.promos
             before == objs[p].promotions
             after == objs'[p].promotions
         IN  /\ lastOp'.err = "none"
             /\ objs' = [objs EXCEPT ![p].promotions = after]
             /\ NoDuplicates(before) => NoDuplicates(after)
             /\ lastOp'.op = "add_promo" =>
                   /\ Range(after) = Range(before) \cup Range(promotion)
                   /\ SubSeq(after, 1, Len(before)) = before
                   /\ Range(promotion) \subseteq Range(before) => after = before
                   /\ add_promo(objs'[p], promotion).obj = objs'[p]
             /\ lastOp'.op = "remove_promo" =>
                   /\ Range(promotion) \cap Range(before) = {} => after = before
                   /\ NoDuplicates(before) =>
                         /\ Range(after) = Range(before) \ Range(promotion)
                         /\ remove_promo(objs'[p], promotion).obj = objs'[p]]_vars

\* a list of two promotions was added to a product that already had the
\* second of them: only the first was appended
C24_Witness ==
    /\ lastOp.op = "add_promo"
    /\ lastOp.promos = <<"ThirdOneFree", "Percent30">>
    /\ objs[lastOp.self].promotions = <<"Percent30", "ThirdOneFree">>
    /\ lastOp.err = "none"

\* C25: update_quantity(a) with an integer 0 <= a <= quantity reduces quantity
\* by a, deactivates the product when the result is 0 and leaves is_active
\* alone while stock remains; with a > quantity, a negative a or a
\* non-integer a it fails and leaves quantity and is_active unchanged.
C25_UpdateQuantity ==
    [][lastOp'.op = "update_quantity" =>
         LET p == lastOp'.self
             a == lastOp'.arg
         IN  IF IsInt(a) /\ 0 <= a.n /\ a.n <= objs[p].quantity
             THEN /\ lastOp'.err = "none"
                  /\ objs'[p].quantity = objs[p].quantity - a.n
                  /\ objs'[p].is_active =
                        (IF objs'[p].quantity = 0 THEN FALSE ELSE objs[p].is_active)
             ELSE /\ lastOp'.err # "none"
                  /\ objs'[p].quantity = objs[p].quantity
                  /\ objs'[p].is_active = objs[p].is_active]_vars

\* stock was taken off and some remains: the product is still active
C25_Witness ==
    /\ lastOp.op = "update_quantity"
    /\ lastOp.err = "none"
    /\ lastOp.arg.n >= 1
    /\ objs[lastOp.self].quantity >= 1
    /\ objs[lastOp.self].is_active

\* C26: a NonStockedProduct's is_active changes only through activate() and
\* deactivate(): buy, quantity assignment and update_quantity never change
\* it, whatever argument they are given.
C26_NonStockedActiveFrame ==
    [][/\ lastOp'.op \in {"buy", "set_quantity", "update_quantity"}
       /\ objs[lastOp'.self].kind = "NonStockedProduct"
       => objs'[lastOp'.self].is_active = objs[lastOp'.self].is_active]_vars

\* buy(quantity) asks for a positive integer within the stock of a
\* stock-tracked product and within the cap of a capped one
WithinStock(self, quantity) ==
    /\ PositiveInt(quantity)
    /\ Stocked(self) => quantity.n <= self.quantity
    /\ self.kind = "LimitedProduct" => quantity.n <= self.max_quantity

\* C27 as stated: an inactive product becomes active only through activate();
\* while it is inactive every buy of a positive integer quantity fails with
\* the inactive-product error, and once active a buy within stock succeeds.
C27_OnlyActivateActivates ==
    [][\A p \in DOMAIN objs :
         /\ ~objs[p].is_active /\ objs'[p].is_active => lastOp'.op = "activate"
         /\ BuyStep /\ lastOp'.self = p /\ ~objs[p].is_active
               /\ PositiveInt(lastOp'.arg) => lastOp'.err = "inactive"
         /\ BuyStep /\ lastOp'.self = p /\ objs[p].is_active
               /\ WithinStock(objs[p], lastOp'.arg) => lastOp'.err = "none"]_vars

\* C27 amended: an inactive product becomes active only through activate() or
\* an assignment to is_active; while it is inactive every buy fails, with the
\* inactive-product error when the quantity asked is within stock, and once
\* active a buy within stock succeeds.
C27_OnlyActivationActivates ==
    [][\A p \in DOMAIN objs :
         /\ ~objs[p].is_active /\ objs'[p].is_active =>
               /\ lastOp'.op \in {"activate", "set_is_active"}
               /\ lastOp'.self = p
         /\ BuyStep /\ lastOp'.self = p /\ ~objs[p].is_active =>
               /\ lastOp'.err # "none"
               /\ WithinStock(objs[p], lastOp'.arg) => lastOp'.err = "inactive"
               /\ ~objs'[p].is_active
         /\ BuyStep /\ lastOp'.self = p /\ objs[p].is_active
               /\ WithinStock(objs[p], lastOp'.arg) => lastOp'.err = "none"]_vars

\* a product with stock, still inactive: a buy within stock was refused
C27_Witness ==
    /\ lastOp.op = "buy"
    /\ lastOp.err = "inactive"
    /\ Stocked(objs[lastOp.self])
    /\ WithinStock(objs[lastOp.self], lastOp.arg)
    /\ ~objs[lastOp.self].is_active

\* C29: a buy(q) that fails, for whatever reason and on whichever variant,
\* leaves the product's quantity, is_active, price and promotions as they
\* were.
C29_FailedBuyChangesNothing ==
    [][BuyStep /\ lastOp'.err # "none" =>
         LET p == lastOp'.self
         IN  /\ objs'[p].quantity = objs[p].quantity
             /\ objs'[p].is_active = objs[p].is_active
             /\ objs'[p].price = objs[p].price
             /\ objs'[p].promotions = objs[p].promotions
             /\ objs' = objs]_vars

\* a buy within stock was refused because the product is inactive, and the
\* stock is still there
C29_Witness ==
    /\ lastOp.op = "buy"
    /\ lastOp.err = "inactive"
    /\ objs[lastOp.self].kind = "Product"
    /\ lastOp.arg = IntV(objs[lastOp.self].quantity)
    /\ objs[lastOp.self].promotions # <<>>

\* C28: in every state reachable through construction, price assignment,
\* quantity assignment, update_quantity and buy, every product has a price > 0
\* and a quantity >= 0, and a rejected price assignment leaves the price
\* unchanged.
C28_FieldsValid ==
    /\ [](\A p \in DOMAIN objs :
             /\ objs[p].price # NaNPrice /\ objs[p].price > 0
             /\ objs[p].quantity >= 0)
    /\ [][lastOp'.op = "set_price" /\ lastOp'.err # "none" =>
             objs'[lastOp'.self].price = objs[lastOp'.self].price]_vars

\* C30: while make_order runs, every entry (product, qty) of
\* reserved_quantities meets the preconditions of buy: qty is a positive
\* integer, at most the stock of a stock-tracked product and at most the cap
\* of a LimitedProduct; and neither the running total nor the final order
\* raises.
C30_ReservedMeetsBuy ==
    lastOp.op = "make_order" =>
        /\ lastOp.err = "none"
        /\ lastOp.k # Returned =>
              \A i \in 1..Len(lastOp.items) :
                  LET product == objs[lastOp.items[i].product]
                      qty == lastOp.items[i].quantity
                  IN  /\ PositiveInt(qty)
                      /\ Stocked(product) => qty.n <= product.quantity
                      /\ product.kind = "LimitedProduct" =>
                            qty.n <= product.max_quantity

====
